---- MODULE Spec2Model ----
(***************************************************************************)
(* Casa IoT backend (main.py): the in-memory HouseState, the HTTP handlers *)
(* that edit it field by field, and the best-effort forward to the ESP32.  *)
(*                                                                         *)
(* A handler is a straight-line program of field writes, clock reads,      *)
(* timestamp stores, one forward and one return.  Spec serves one request  *)
(* at a time: a handler runs from entry to return before the next request  *)
(* is taken.  SpecConc lets the requests of several worker threads         *)
(* overlap, each thread executing its handler one instruction at a time,   *)
(* which is what FastAPI's thread pool does with `def` handlers.  A        *)
(* response is the value of the returned object at the return statement.   *)
(***************************************************************************)
EXTENDS Integers, Sequences, FiniteSets, TLC

\* ---------------------------------------------------------------- bounds
MaxClock == 1      \* the clock takes the values 0..MaxClock
MaxOps == 2        \* requests served in one behaviour of Spec
MaxConcOps == 3    \* requests served in one behaviour of SpecConc
NThreads == 2      \* worker threads that may run handlers at the same time

Threads == 1..NThreads

\* Optional[...] = None
None == -1

DoorNames == {"principal", "garage"}
Rooms == {"cocina", "sala", "dorm"}

\* request bodies: UltraDistanceUpdate.distance_cm, DhtUpdate.temperature/humidity
Distances == {42, 43}
Temperatures == {23, 24}
Humidities == {55, 56}

\* what requests.get(url, timeout=3) can do
Results == {"ok", "non2xx", "timeout", "connection_error"}

VARIABLES
  state,            \* the module-level HouseState instance
  clock,            \* the last value now() returned
  FORWARD_TO_ESP32, \* read once from the environment at import
  pc,               \* pc[t]: index of the next instruction of thread t's handler
  op,               \* op[t]: the handler thread t runs (or ran last)
  data,             \* data[t]: the request body of that handler
  tmp,              \* tmp[t]: the value of now() not yet stored
  resp,             \* resp[t]: what the handler returned
  calls,            \* calls[t]: requests.get calls made by the handler
  outcome,          \* outcome[t]: what the forward of the handler did
  pre,              \* state and clock when the request served alone was accepted
  hist              \* history of the requests served

vars == <<state, clock, FORWARD_TO_ESP32, pc, op, data, tmp, resp, calls,
          outcome, pre, hist>>

\* ---------------------------------------------------------------- state
DoorState(n, open, ts) == [name |-> n, is_open |-> open, last_update |-> ts]
LightState(r, on, ts) == [room |-> r, is_on |-> on, last_update |-> ts]
PirState(a, ts) == [active |-> a, last_update |-> ts]
UltraState(a, ts, d) == [active |-> a, last_update |-> ts, last_distance_cm |-> d]
DhtState(t, h, ts) == [temperature |-> t, humidity |-> h, last_update |-> ts]

\* the HouseState built at import; every now() of the construction reads tick 0
InitialState ==
  [doors |-> [d \in DoorNames |-> DoorState(d, FALSE, 0)],
   lights |-> [r \in Rooms |-> LightState(r, FALSE, 0)],
   pir |-> PirState(FALSE, 0),
   ultra |-> UltraState(FALSE, 0, None),
   dht |-> DhtState(None, None, None),
   modo_seguro |-> FALSE]

\* ---------------------------------------------------------------- instructions
\* x.f = v                                 (x a path into state, v a literal)
Set(path, f, v) == [k |-> "set", path |-> path, f |-> f, v |-> v, a |-> ""]
\* x.f = data.a                            (a field of the request body)
SetData(path, f, a) == [k |-> "setdata", path |-> path, f |-> f, v |-> FALSE, a |-> a]
\* state.modo_seguro = v
SetModo(v) == [k |-> "modo", path |-> <<>>, f |-> "", v |-> v, a |-> ""]
\* x.last_update = now(): the call of now(), then the store
Now == [k |-> "now", path |-> <<>>, f |-> "", v |-> FALSE, a |-> ""]
Store(path) == [k |-> "store", path |-> path, f |-> "last_update", v |-> FALSE, a |-> ""]
Touch(path) == <<Now, Store(path)>>
\* send_command_to_esp(p)
Send(p) == [k |-> "send", path |-> <<>>, f |-> "", v |-> FALSE, a |-> p]
\* return {"message": m, key: x}; key "" returns x itself
Return(m, key, path) == [k |-> "return", path |-> path, f |-> key, v |-> FALSE, a |-> m]

Door(d) == <<"doors", d>>
Light(r) == <<"lights", r>>

\* the object a path names
At(s, path) ==
  IF Len(path) = 0 THEN s
  ELSE IF Len(path) = 1 THEN s[path[1]]
  ELSE s[path[1]][path[2]]

\* the state after x.f = v
Write(s, path, f, v) ==
  IF Len(path) = 1 THEN [s EXCEPT ![path[1]][f] = v]
  ELSE [s EXCEPT ![path[1]][path[2]][f] = v]

\* ---------------------------------------------------------------- handlers
get_status == <<Return("", "", <<>>)>>

\* principal_open that leaves modo_seguro alone
principal_open_keeps_modo ==
  <<Set(Door("principal"), "is_open", TRUE)>>
  \o Touch(Door("principal"))
  \o <<Send("/principal/open"),
       Return("Puerta principal abierta", "door", Door("principal"))>>

principal_open ==
  <<Set(Door("principal"), "is_open", TRUE)>>
  \o Touch(Door("principal"))
  \o <<SetModo(FALSE),
       Send("/principal/open"),
       Return("Puerta principal abierta", "door", Door("principal"))>>

principal_close ==
  <<Set(Door("principal"), "is_open", FALSE)>>
  \o Touch(Door("principal"))
  \o <<Send("/principal/close"),
       Return("Puerta principal cerrada", "door", Door("principal"))>>

\* garage_open that stores the timestamp before it opens the door
garage_open_stamps_first ==
  Touch(Door("garage"))
  \o <<Set(Door("garage"), "is_open", TRUE),
       SetModo(FALSE),
       Send("/garage/open"),
       Return("Puerta garage abierta", "door", Door("garage"))>>

garage_open ==
  <<Set(Door("garage"), "is_open", TRUE)>>
  \o Touch(Door("garage"))
  \o <<SetModo(FALSE),
       Send("/garage/open"),
       Return("Puerta garage abierta", "door", Door("garage"))>>

\* garage_close that also sets modo_seguro (closing the last door "restores" it)
garage_close_sets_modo ==
  <<Set(Door("garage"), "is_open", FALSE)>>
  \o Touch(Door("garage"))
  \o <<SetModo(TRUE),
       Send("/garage/close"),
       Return("Puerta garage cerrada", "door", Door("garage"))>>

garage_close ==
  <<Set(Door("garage"), "is_open", FALSE)>>
  \o Touch(Door("garage"))
  \o <<Send("/garage/close"),
       Return("Puerta garage cerrada", "door", Door("garage"))>>

ultra_on ==
  <<Set(<<"ultra">>, "active", TRUE)>>
  \o Touch(<<"ultra">>)
  \o <<Send("/ultra/on"), Return("Ultrasonido activado", "ultra", <<"ultra">>)>>

ultra_off ==
  <<Set(<<"ultra">>, "active", FALSE)>>
  \o Touch(<<"ultra">>)
  \o <<Send("/ultra/off"), Return("Ultrasonido desactivado", "ultra", <<"ultra">>)>>

\* ultra_update_distance that switches the sensor on, as ultra_on does
ultra_update_distance_activates ==
  <<Set(<<"ultra">>, "active", TRUE),
    SetData(<<"ultra">>, "last_distance_cm", "distance_cm")>>
  \o Touch(<<"ultra">>)
  \o <<Return("Distancia actualizada", "ultra", <<"ultra">>)>>

ultra_update_distance ==
  <<SetData(<<"ultra">>, "last_distance_cm", "distance_cm")>>
  \o Touch(<<"ultra">>)
  \o <<Return("Distancia actualizada", "ultra", <<"ultra">>)>>

\* cocina_on that clears modo_seguro, as the door-open handlers do
cocina_on_clears_modo ==
  <<Set(Light("cocina"), "is_on", TRUE)>>
  \o Touch(Light("cocina"))
  \o <<SetModo(FALSE),
       Send("/cocina/on"), Return("Luz cocina encendida", "light", Light("cocina"))>>

cocina_on ==
  <<Set(Light("cocina"), "is_on", TRUE)>>
  \o Touch(Light("cocina"))
  \o <<Send("/cocina/on"), Return("Luz cocina encendida", "light", Light("cocina"))>>

cocina_off ==
  <<Set(Light("cocina"), "is_on", FALSE)>>
  \o Touch(Light("cocina"))
  \o <<Send("/cocina/off"), Return("Luz cocina apagada", "light", Light("cocina"))>>

sala_on ==
  <<Set(Light("sala"), "is_on", TRUE)>>
  \o Touch(Light("sala"))
  \o <<Send("/sala/on"), Return("Luz sala encendida", "light", Light("sala"))>>

sala_off ==
  <<Set(Light("sala"), "is_on", FALSE)>>
  \o Touch(Light("sala"))
  \o <<Send("/sala/off"), Return("Luz sala apagada", "light", Light("sala"))>>

dorm_on ==
  <<Set(Light("dorm"), "is_on", TRUE)>>
  \o Touch(Light("dorm"))
  \o <<Send("/dorm/on"), Return("Luz dormitorio encendida", "light", Light("dorm"))>>

dorm_off ==
  <<Set(Light("dorm"), "is_on", FALSE)>>
  \o Touch(Light("dorm"))
  \o <<Send("/dorm/off"), Return("Luz dormitorio apagada", "light", Light("dorm"))>>

pir_on ==
  <<Set(<<"pir">>, "active", TRUE)>>
  \o Touch(<<"pir">>)
  \o <<Send("/pir/on"), Return("PIR activado", "pir", <<"pir">>)>>

pir_off ==
  <<Set(<<"pir">>, "active", FALSE)>>
  \o Touch(<<"pir">>)
  \o <<Send("/pir/off"), Return("PIR desactivado", "pir", <<"pir">>)>>

\* dht_update that stores the temperature in both fields
dht_update_copies_temperature ==
  <<SetData(<<"dht">>, "temperature", "temperature"),
    SetData(<<"dht">>, "humidity", "temperature")>>
  \o Touch(<<"dht">>)
  \o <<Return("DHT actualizado", "dht", <<"dht">>)>>

dht_update ==
  <<SetData(<<"dht">>, "temperature", "temperature"),
    SetData(<<"dht">>, "humidity", "humidity")>>
  \o Touch(<<"dht">>)
  \o <<Return("DHT actualizado", "dht", <<"dht">>)>>

dht_get == <<Return("", "", <<"dht">>)>>

\* state.lights and state.doors are dicts: values() follows insertion order
LightOrder == <<"cocina", "sala", "dorm">>
DoorOrder == <<"principal", "garage">>

\* for light in state.lights.values(): light.is_on = False; light.last_update = now()
RECURSIVE ApagarLuces(_)
ApagarLuces(rooms) ==
  IF rooms = <<>> THEN <<>>
  ELSE <<Set(Light(Head(rooms)), "is_on", FALSE)>> \o Touch(Light(Head(rooms)))
       \o ApagarLuces(Tail(rooms))

\* a door loop that stops after the first door
CerrarPuertas_first_only(names) ==
  IF names = <<>> THEN <<>>
  ELSE <<Set(Door(Head(names)), "is_open", FALSE)>> \o Touch(Door(Head(names)))

\* for door in state.doors.values(): door.is_open = False; door.last_update = now()
RECURSIVE CerrarPuertas(_)
CerrarPuertas(names) ==
  IF names = <<>> THEN <<>>
  ELSE <<Set(Door(Head(names)), "is_open", FALSE)>> \o Touch(Door(Head(names)))
       \o CerrarPuertas(Tail(names))

modo_seguro ==
  ApagarLuces(LightOrder)
  \o CerrarPuertas(DoorOrder)
  \o <<Set(<<"pir">>, "active", TRUE)>> \o Touch(<<"pir">>)
  \o <<Set(<<"ultra">>, "active", FALSE)>> \o Touch(<<"ultra">>)
  \o <<SetModo(TRUE),
       Send("/modo/seguro"),
       Return("MODO SEGURO ACTIVADO", "status", <<>>)>>

\* the route table
Handlers ==
  [get_status |-> get_status,
   principal_open |-> principal_open, principal_close |-> principal_close,
   garage_open |-> garage_open, garage_close |-> garage_close,
   ultra_on |-> ultra_on, ultra_off |-> ultra_off,
   ultra_update_distance |-> ultra_update_distance,
   cocina_on |-> cocina_on, cocina_off |-> cocina_off,
   sala_on |-> sala_on, sala_off |-> sala_off,
   dorm_on |-> dorm_on, dorm_off |-> dorm_off,
   pir_on |-> pir_on, pir_off |-> pir_off,
   dht_update |-> dht_update, dht_get |-> dht_get,
   modo_seguro |-> modo_seguro]

Ops == DOMAIN Handlers

NoData == [distance_cm |-> None, temperature |-> None, humidity |-> None]

\* the well-formed request bodies of a route (validation happens before the handler)
Bodies(o) ==
  IF o = "ultra_update_distance"
    THEN {[NoData EXCEPT !.distance_cm = d] : d \in Distances}
  ELSE IF o = "dht_update"
    THEN {[NoData EXCEPT !.temperature = t, !.humidity = h] :
            t \in Temperatures, h \in Humidities}
  ELSE {NoData}

\* the handler a thread is in; "" before its first request
Prog(t) == IF op[t] = "" THEN <<>> ELSE Handlers[op[t]]
Running(t) == pc[t] <= Len(Prog(t))
Ins(t) == Prog(t)[pc[t]]
Returned(t) == op[t] # "" /\ ~Running(t)

OpenOps == {"principal_open", "garage_open"}
LightOnOps == {"cocina_on", "sala_on", "dorm_on"}

\* ---------------------------------------------------------------- forward
\* send_command_to_esp without the except clause for a timeout
send_command_to_esp_raises(flag, result) ==
  IF ~flag THEN [requests |-> 0, raises |-> FALSE, did |-> "disabled"]
  ELSE IF result = "timeout"
    THEN [requests |-> 1, raises |-> TRUE, did |-> result]
  ELSE [requests |-> 1, raises |-> FALSE, did |-> result]

\* send_command_to_esp: what one call does, given the flag and what the
\* network does to requests.get.  raises: an exception leaves the function.
\* A timeout and a connection error are caught by `except Exception`; a
\* non-2xx reply is an ordinary return value of requests.get.
send_command_to_esp(flag, result) ==
  IF ~flag THEN [requests |-> 0, raises |-> FALSE, did |-> "disabled"]
  ELSE [requests |-> 1, raises |-> FALSE, did |-> result]

\* ---------------------------------------------------------------- execution
\* The part of the program state one handler invocation works on: the shared
\* state and clock, and the invocation's own locals.
Frame(s, c) ==
  [state |-> s, clock |-> c, pc |-> 1, tmp |-> None, resp |-> [message |-> ""],
   calls |-> 0, outcome |-> "none"]

\* the response body of a return instruction
Body(s, i) ==
  IF i.f = "" THEN At(s, i.path)
  ELSE IF i.f = "door" THEN [message |-> i.a, door |-> At(s, i.path)]
  ELSE IF i.f = "light" THEN [message |-> i.a, light |-> At(s, i.path)]
  ELSE IF i.f = "pir" THEN [message |-> i.a, pir |-> At(s, i.path)]
  ELSE IF i.f = "ultra" THEN [message |-> i.a, ultra |-> At(s, i.path)]
  ELSE IF i.f = "dht" THEN [message |-> i.a, dht |-> At(s, i.path)]
  ELSE [message |-> i.a, status |-> At(s, i.path)]

\* x.f = v, x.f = data.a, state.modo_seguro = v
DoAssign(c, i, body) ==
  {[c EXCEPT !.pc = @ + 1,
             !.state = IF i.k = "set" THEN Write(@, i.path, i.f, i.v)
                       ELSE IF i.k = "setdata" THEN Write(@, i.path, i.f, body[i.a])
                       ELSE [@ EXCEPT !.modo_seguro = i.v]]}

\* now(): time has not gone back since the last reading
DoNow(c) ==
  {[c EXCEPT !.pc = @ + 1, !.clock = n, !.tmp = n] : n \in c.clock..MaxClock}

\* x.last_update = <the value now() returned>
DoStore(c, i) ==
  {[c EXCEPT !.pc = @ + 1, !.state = Write(@, i.path, "last_update", c.tmp)]}

\* send_command_to_esp(path); an exception that left it would end the handler
\* at instruction `last` with the framework's error response
DoSend(c, flag, last) ==
  {LET s == send_command_to_esp(flag, r) IN
     IF s.raises
       THEN [c EXCEPT !.pc = last + 1, !.calls = @ + s.requests, !.outcome = s.did,
                      !.resp = [message |-> "Internal Server Error"]]
       ELSE [c EXCEPT !.pc = @ + 1, !.calls = @ + s.requests, !.outcome = s.did]
   : r \in Results}

\* return ...
DoReturn(c, i) ==
  {[c EXCEPT !.pc = @ + 1, !.resp = Body(c.state, i)]}

\* the frames one instruction of handler h can lead to from frame c
Exec(c, h, flag, body) ==
  LET i == h[c.pc] IN
    IF i.k \in {"set", "setdata", "modo"} THEN DoAssign(c, i, body)
    ELSE IF i.k = "now" THEN DoNow(c)
    ELSE IF i.k = "store" THEN DoStore(c, i)
    ELSE IF i.k = "send" THEN DoSend(c, flag, Len(h))
    ELSE DoReturn(c, i)

\* the frames handler h can end in when it runs from frame c with nothing
\* else running
RECURSIVE RunToEnd(_, _, _, _)
RunToEnd(c, h, flag, body) ==
  IF c.pc > Len(h) THEN {c}
  ELSE UNION {RunToEnd(x, h, flag, body) : x \in Exec(c, h, flag, body)}

\* ---------------------------------------------------------------- history
\* the request history when handler o is entered with body b
Entered(h, o, b) ==
  [h EXCEPT !.served = @ + 1,
            !.safe_ran = @ \/ o = "modo_seguro",
            !.door_since = @ /\ o # "modo_seguro",
            !.light_since = @ /\ o # "modo_seguro",
            !.report = IF o = "dht_update" THEN b ELSE @]

\* the request history when handler o has returned
Left(h, o) ==
  [h EXCEPT !.door_since = @ \/ o \in OpenOps,
            !.light_since = @ \/ o \in LightOnOps]

\* ---------------------------------------------------------------- actions
Init ==
  /\ state = InitialState
  /\ clock = 0
  /\ FORWARD_TO_ESP32 \in BOOLEAN
  /\ pc = [t \in Threads |-> 1]
  /\ op = [t \in Threads |-> ""]
  /\ data = [t \in Threads |-> NoData]
  /\ tmp = [t \in Threads |-> None]
  /\ resp = [t \in Threads |-> [message |-> ""]]
  /\ calls = [t \in Threads |-> 0]
  /\ outcome = [t \in Threads |-> "none"]
  /\ pre = [state |-> InitialState, clock |-> 0]
  /\ hist = [served |-> 0, safe_ran |-> FALSE, door_since |-> FALSE,
             light_since |-> FALSE, report |-> NoData]

\* thread t's invocation takes on frame c
Adopt(t, c) ==
  /\ state' = c.state
  /\ clock' = c.clock
  /\ pc' = [pc EXCEPT ![t] = c.pc]
  /\ tmp' = [tmp EXCEPT ![t] = c.tmp]
  /\ resp' = [resp EXCEPT ![t] = c.resp]
  /\ calls' = [calls EXCEPT ![t] = c.calls]
  /\ outcome' = [outcome EXCEPT ![t] = c.outcome]

\* One request at a time: thread 1 runs handler o with body b from entry to
\* return before the next request is taken.
Handle(o, b) ==
  /\ hist.served < MaxOps
  /\ \E c \in RunToEnd(Frame(state, clock), Handlers[o], FORWARD_TO_ESP32, b) :
       Adopt(1, c)
  /\ op' = [op EXCEPT ![1] = o]
  /\ data' = [data EXCEPT ![1] = b]
  /\ pre' = [state |-> state, clock |-> clock]
  /\ hist' = Left(Entered(hist, o, b), o)
  /\ UNCHANGED FORWARD_TO_ESP32

Next == \E o \in Ops : \E b \in Bodies(o) : Handle(o, b)

Spec == Init /\ [][Next]_vars

\* ---------------------------------------------------------------- overlapping requests
\* the handlers that race on a door, a light or modo_seguro, and the full read
ConcOps == {"get_status", "principal_open", "principal_close", "garage_open",
            "cocina_on", "cocina_off", "modo_seguro"}

\* the frame thread t's invocation is in
FrameOf(t) ==
  [state |-> state, clock |-> clock, pc |-> pc[t], tmp |-> tmp[t],
   resp |-> resp[t], calls |-> calls[t], outcome |-> outcome[t]]

\* the first free worker thread enters handler o with request body b
Call(t, o, b) ==
  /\ hist.served < MaxConcOps
  /\ ~Running(t)
  /\ \A u \in Threads : u < t => Running(u)
  /\ Adopt(t, Frame(state, clock))
  /\ op' = [op EXCEPT ![t] = o]
  /\ data' = [data EXCEPT ![t] = b]
  /\ hist' = Entered(hist, o, b)
  /\ UNCHANGED <<FORWARD_TO_ESP32, pre>>

\* thread t executes the next instruction of its handler, of kind in ks
Step(t, ks) ==
  /\ Running(t)
  /\ Ins(t).k \in ks
  /\ \E c \in Exec(FrameOf(t), Prog(t), FORWARD_TO_ESP32, data[t]) :
       /\ Adopt(t, c)
       /\ hist' = IF c.pc > Len(Prog(t)) THEN Left(hist, op[t]) ELSE hist
  /\ UNCHANGED <<FORWARD_TO_ESP32, op, data, pre>>

Assign(t) == Step(t, {"set", "setdata", "modo"})
ReadNow(t) == Step(t, {"now"})
StoreTime(t) == Step(t, {"store"})
Forward(t) == Step(t, {"send"})
Respond(t) == Step(t, {"return"})

ServeConc == \E t \in Threads : \E o \in ConcOps : \E b \in Bodies(o) : Call(t, o, b)

RunConc ==
  \E t \in Threads :
    Assign(t) \/ ReadNow(t) \/ StoreTime(t) \/ Forward(t) \/ Respond(t)

NextConc == ServeConc \/ RunConc

SpecConc == Init /\ [][NextConc]_vars

\* ---------------------------------------------------------------- properties
Idle == \A t \in Threads : ~Running(t)

\* the door a door-open handler opens
DoorOf(o) == IF o = "principal_open" THEN "principal" ELSE "garage"

\* what the safe-mode operation establishes, of a full state s
Safe(s) ==
  /\ \A r \in Rooms : ~s.lights[r].is_on
  /\ \A d \in DoorNames : ~s.doors[d].is_open
  /\ s.pir.active
  /\ ~s.ultra.active
  /\ s.modo_seguro

\* C1: when /modo/seguro has returned, and in the snapshot it returned, every
\* light is off, every door is closed, the PIR is active, the ultrasonic
\* sensor is inactive and modo_seguro is true, whatever the state was before.
C1_SafeModeForcesAll ==
  \A t \in Threads :
    Returned(t) /\ op[t] = "modo_seguro" => Safe(state) /\ Safe(resp[t].status)

\* /modo/seguro has returned, having found a door open, the PIR off and the
\* flag clear
C1_Witness ==
  \E t \in Threads :
    /\ Returned(t) /\ op[t] = "modo_seguro"
    /\ pre.state.doors["garage"].is_open
    /\ ~pre.state.pir.active
    /\ ~pre.state.modo_seguro
    /\ Safe(resp[t].status)

\* C2: when a door-open handler has returned, modo_seguro is false, whatever
\* it was before.
C2_DoorOpenClearsSafeMode ==
  \A t \in Threads : Returned(t) /\ op[t] \in OpenOps => ~state.modo_seguro

\* a door-open handler has returned, having found modo_seguro set
C2_Witness ==
  \E t \in Threads :
    /\ Returned(t) /\ op[t] \in OpenOps
    /\ pre.state.modo_seguro
    /\ state.doors[DoorOf(op[t])].is_open

\* C3 as stated: modo_seguro is true only if /modo/seguro has run and neither
\* a door-open nor a light-on operation has run since the last /modo/seguro.
C3_Original ==
  state.modo_seguro =>
    hist.safe_ran /\ ~hist.door_since /\ ~hist.light_since

\* C3 amended: modo_seguro is true only if /modo/seguro has run and no
\* door-open operation has run since the last /modo/seguro (a light-on
\* operation does not end safe mode).
C3_SafeModeOnlyUntilDoorOpen ==
  state.modo_seguro => hist.safe_ran /\ ~hist.door_since

\* safe mode outlived a light-on operation
C3_Witness ==
  /\ Idle
  /\ state.modo_seguro
  /\ hist.light_since
  /\ \E r \in Rooms : state.lights[r].is_on

\* C4: every operation other than door-open and /modo/seguro returns with
\* modo_seguro at the value it had when the operation began.
C4_OthersKeepSafeMode ==
  \A t \in Threads :
    Returned(t) /\ op[t] \notin OpenOps \cup {"modo_seguro"}
      => state.modo_seguro = pre.state.modo_seguro

\* a light-on handler has returned in safe mode, and safe mode is still on
C4_Witness ==
  \E t \in Threads :
    /\ Returned(t) /\ op[t] = "cocina_on"
    /\ pre.state.modo_seguro
    /\ state.lights["cocina"].is_on
    /\ state.modo_seguro

\* every write of is_open or is_on in a handler is followed, in that handler,
\* by a read of the clock and the store of that reading in the same object
WritesAreStamped ==
  \A o \in Ops : \A i \in 1..Len(Handlers[o]) :
    Handlers[o][i].k = "set" /\ Handlers[o][i].f \in {"is_open", "is_on"}
      => /\ i + 2 <= Len(Handlers[o])
         /\ Handlers[o][i + 1] = Now
         /\ Handlers[o][i + 2] = Store(Handlers[o][i].path)

\* no step lowers the last_update of a door or of a light
LastUpdateGrows ==
  /\ \A d \in DoorNames : state'.doors[d].last_update >= state.doors[d].last_update
  /\ \A r \in Rooms : state'.lights[r].last_update >= state.lights[r].last_update

\* C5: the last_update of every door and every light never decreases, also
\* when handlers that write the same object interleave between reading the
\* clock and storing the reading, and every operation that writes is_open or
\* is_on also stores a clock value it read itself in that object's last_update.
C5_LastUpdateMonotone == [][LastUpdateGrows]_vars /\ []WritesAreStamped

\* C6: /ultra/distance with distance d returns with ultra.last_distance_cm = d
\* and ultra.last_update a clock value read by the handler; ultra.active, the
\* doors, the lights, the PIR, the DHT and modo_seguro are as they were, and
\* send_command_to_esp was not called.
C6_DistanceReportFrame ==
  \A t \in Threads :
    Returned(t) /\ op[t] = "ultra_update_distance" =>
      /\ state.ultra.last_distance_cm = data[t].distance_cm
      /\ state.ultra.last_update = tmp[t]
      /\ tmp[t] >= pre.clock
      /\ state.ultra.active = pre.state.ultra.active
      /\ state.doors = pre.state.doors
      /\ state.lights = pre.state.lights
      /\ state.pir = pre.state.pir
      /\ state.dht = pre.state.dht
      /\ state.modo_seguro = pre.state.modo_seguro
      /\ calls[t] = 0
      /\ outcome[t] = "none"

\* a distance was reported while the sensor was on and forwarding enabled,
\* with a later timestamp than the sensor had
C6_Witness ==
  \E t \in Threads :
    /\ Returned(t) /\ op[t] = "ultra_update_distance"
    /\ FORWARD_TO_ESP32
    /\ pre.state.ultra.active
    /\ pre.state.ultra.last_update < state.ultra.last_update
    /\ state.ultra.last_distance_cm = data[t].distance_cm

\* what handler o with body b can leave behind, state and response, when it
\* runs from the state and clock of `before` with forwarding disabled
WithoutForward(before, o, b) ==
  {[state |-> c.state, resp |-> c.resp] :
     c \in RunToEnd(Frame(before.state, before.clock), Handlers[o], FALSE, b)}

\* C7: the outcome of the forward (disabled, success, timeout, connection
\* error, non-2xx reply) changes neither the state nor the response: what a
\* handler leaves and returns is what it leaves and returns with forwarding
\* disabled; requests.get is called at most once per operation and not at all
\* when the flag is off.
C7_ForwardOutcomeIrrelevant ==
  \A t \in Threads :
    Returned(t) =>
      /\ [state |-> state, resp |-> resp[t]] \in WithoutForward(pre, op[t], data[t])
      /\ calls[t] <= 1
      /\ ~FORWARD_TO_ESP32 => calls[t] = 0

\* a door was opened while the ESP32 timed out: the door is open in the state
\* and in the response
C7_Witness ==
  \E t \in Threads :
    /\ Returned(t) /\ op[t] = "principal_open"
    /\ outcome[t] = "timeout"
    /\ calls[t] = 1
    /\ state.doors["principal"].is_open
    /\ resp[t].door.is_open

\* C8: GET /dht after a climate report (t, h), with no other report in
\* between, returns temperature t, humidity h and a last_update that is not
\* None; before the first report it returns None for all three.
C8_DhtRoundTrip ==
  \A t \in Threads :
    Returned(t) /\ op[t] = "dht_get" =>
      IF hist.report = NoData
        THEN resp[t] = DhtState(None, None, None)
        ELSE /\ resp[t].temperature = hist.report.temperature
             /\ resp[t].humidity = hist.report.humidity
             /\ resp[t].last_update # None

\* GET /dht returned the report made just before it
C8_Witness ==
  \E t \in Threads :
    /\ Returned(t) /\ op[t] = "dht_get"
    /\ hist.report # NoData
    /\ pre.state.dht.temperature = hist.report.temperature
    /\ resp[t].last_update = 1
    /\ resp[t].temperature = 24
    /\ resp[t].humidity = 55

\* thread t executes the first instruction of a door-open handler
FirstOfOpen(t) == op[t] \in OpenOps /\ pc[t] = 1 /\ pc'[t] = 2 /\ op'[t] = op[t]

\* thread t executes the return of get_status
ReadsStatus(t) == op[t] = "get_status" /\ pc[t] = 1 /\ pc'[t] = 2 /\ op'[t] = op[t]

\* the first step of a door-open handler sets is_open and nothing else, and
\* the handler is not finished; a get_status that returns at any moment
\* returns the state of that moment
TornStep ==
  \A t \in Threads :
    /\ FirstOfOpen(t) =>
         /\ state'.doors[DoorOf(op[t])].is_open
         /\ state'.doors[DoorOf(op[t])].last_update
              = state.doors[DoorOf(op[t])].last_update
         /\ state'.modo_seguro = state.modo_seguro
         /\ Running(t)'
    /\ ReadsStatus(t) => resp'[t] = state

\* C9: handlers are not atomic: a door-open handler changes is_open in a step
\* of its own, before last_update and modo_seguro, and a full read that runs
\* in between returns is_open changed with the previous timestamp and the
\* previous modo_seguro.
C9_HandlersNotAtomic == [][TornStep]_vars

\* a get_status returned a door open, with the timestamp it had before the
\* door-open handler began (the clock has moved on since) and with modo_seguro
\* still set, while that handler had not yet stored its timestamp
C9_Witness ==
  \E r \in Threads : \E w \in Threads :
    /\ r # w
    /\ Returned(r) /\ op[r] = "get_status"
    /\ op[w] \in OpenOps /\ pc[w] \in {2, 3}
    /\ resp[r].doors[DoorOf(op[w])].is_open
    /\ resp[r].doors[DoorOf(op[w])].last_update
         = state.doors[DoorOf(op[w])].last_update
    /\ state.doors[DoorOf(op[w])].last_update < clock
    /\ resp[r].modo_seguro
    /\ state.modo_seguro
    /\ Safe([resp[r] EXCEPT !.doors[DoorOf(op[w])].is_open = FALSE])

\* C10: whenever no handler is in progress, modo_seguro implies that every
\* door is closed, for every interleaving of the handlers.
C10_SafeModeMeansDoorsClosed ==
  Idle /\ state.modo_seguro => \A d \in DoorNames : ~state.doors[d].is_open

====
